---- MODULE Spec2Model ----
(***************************************************************************)
(* Model of the order book and matching engine of tracer-ome               *)
(* (src/src/book.rs).  The book holds two price-indexed maps of FIFO        *)
(* queues (BTreeMap<U256, VecDeque<Order>>); submit matches an incoming     *)
(* order against the opposing side and then runs update (prune + depth);    *)
(* cancel removes one order by id.                                          *)
(***************************************************************************)
EXTENDS Integers, Sequences, FiniteSets, TLC

(* ---------------------------- bounds ----------------------------------- *)
\* number of orders ever submitted (order ids are 1..MaxOrders, unique)
MaxOrders == 3
\* the highest limit price
MaxPrice == 2
\* the largest quantity
MaxQty == 2

\* limit prices submitted: the lowest and the highest
Prices == {1, MaxPrice}
\* quantities submitted: none (the engine does not reject quantity 0), one
\* unit, and the largest
Quantities == {0, 1, MaxQty}
Traders == {"A", "B"}
Sides == {"Bid", "Ask"}
OrderIds == 1..MaxOrders

\* Option<U256>::None, as returned by top() for an empty side
None == -1

VARIABLES
    bids,        \* Book.bids : price -> queue of orders
    asks,        \* Book.asks : price -> queue of orders
    ltp,         \* Book.ltp
    depth,       \* Book.depth, a pair <<bid depth, ask depth>>
    crossed,     \* Book.crossed
    spread,      \* Book.spread
    nextId,      \* id the next submitted order carries
    lastOp,      \* "none", "submit" or "cancel": the call that returned last
    lastOrder,   \* the order passed to the call, if it was a submit
    lastResult,  \* MatchResult it returned, if it was a submit
    lastCancel,  \* [id, found] of the call, if it was a cancel
    filled,      \* order id -> sum of the quantities of all fills naming it
    ext,         \* the ExternalBook handed to Book::try_from
    conv         \* what Book::try_from(ext) came to

vars == <<bids, asks, ltp, depth, crossed, spread, nextId, lastOp, lastOrder,
          lastResult, lastCancel, filled, ext, conv>>

(* ---------------------------- helpers ---------------------------------- *)
Range(s) == {s[i] : i \in 1..Len(s)}

Max(S) == CHOOSE x \in S : \A y \in S : y <= x
Min(S) == CHOOSE x \in S : \A y \in S : x <= y

RECURSIVE Ascending(_)
\* keys of a BTreeMap in iteration order
Ascending(S) == IF S = {} THEN <<>> ELSE <<Min(S)>> \o Ascending(S \ {Min(S)})

RECURSIVE Descending(_)
\* keys of a BTreeMap in reverse iteration order
Descending(S) == IF S = {} THEN <<>> ELSE <<Max(S)>> \o Descending(S \ {Max(S)})

RECURSIVE SumQty(_)
SumQty(fs) == IF fs = <<>> THEN 0 ELSE fs[1].quantity + SumQty(Tail(fs))

\* the orders held in one side of the book
OrdersOf(side) == UNION {Range(side[p]) : p \in DOMAIN side}

\* an order as constructed by the caller: remaining = quantity
NewOrder(id, trader, s, price, quantity) ==
    [id |-> id, trader |-> trader, side |-> s, price |-> price,
     quantity |-> quantity, remaining |-> quantity]

NoOrder == [id |-> 0, trader |-> "A", side |-> "Bid", price |-> 1,
            quantity |-> 0, remaining |-> 0]

NoResult == [fills |-> <<>>, order_status |-> "Placed"]

NoCancel == [id |-> 0, found |-> FALSE]

EmptySide == [p \in {} |-> <<>>]

(* ---------------------------- Book ------------------------------------- *)
\* Book::depth() : orders with nonzero remaining, per side
CountDepth(b, a) ==
    << Cardinality({<<p, i>> \in Prices \X (1..MaxOrders) :
            p \in DOMAIN b /\ i <= Len(b[p]) /\ b[p][i].remaining # 0}),
       Cardinality({<<p, i>> \in Prices \X (1..MaxOrders) :
            p \in DOMAIN a /\ i <= Len(a[p]) /\ a[p][i].remaining # 0}) >>

\* Book::top() : (highest bid key, lowest ask key)
top(b, a) ==
    << IF DOMAIN b = {} THEN None ELSE Max(DOMAIN b),
       IF DOMAIN a = {} THEN None ELSE Min(DOMAIN a) >>

\* slip: strict comparisons
price_viable_strict(opposite, incoming, incoming_side) ==
    IF incoming_side = "Bid" THEN opposite < incoming
                             ELSE opposite > incoming

price_viable(opposite, incoming, incoming_side) ==
    IF incoming_side = "Bid" THEN opposite <= incoming
                             ELSE opposite >= incoming

build_match_result(order_status, fills) ==
    [fills |-> fills, order_status |-> order_status]

\* slip: maker and taker exchanged
build_fill_swapped(maker, taker, quantity, price) ==
    [maker |-> taker, taker |-> maker, quantity |-> quantity, price |-> price]

build_fill(maker, taker, quantity, price) ==
    [maker |-> maker, taker |-> taker, quantity |-> quantity, price |-> price]

\* slip: the decrement is lost
fill_keep(order, amount) == order

\* Book::fill
fill(order, amount) ==
    IF amount > order.remaining THEN order
    ELSE [order EXCEPT !.remaining = order.remaining - amount]

\* slip: push_front instead of push_back
PushBack_front(side, order) ==
    IF order.price \in DOMAIN side
    THEN [side EXCEPT ![order.price] = <<order>> \o @]
    ELSE side @@ (order.price :> <<order>>)

\* one side's part of Book::add_order: entry(price).or_insert(empty).push_back
PushBack(side, order) ==
    IF order.price \in DOMAIN side
    THEN [side EXCEPT ![order.price] = Append(@, order)]
    ELSE side @@ (order.price :> <<order>>)

\* slip: the arms of the side match are exchanged
add_order_exchanged(b, a, order) ==
    IF order.side = "Bid" THEN <<b, PushBack(a, order)>>
                          ELSE <<PushBack(b, order), a>>

\* Book::add_order, on the pair <<bids, asks>>
add_order(b, a, order) ==
    IF order.side = "Bid" THEN <<PushBack(b, order), a>>
                          ELSE <<b, PushBack(a, order)>>

\* slip: the self-trade test is missing
SelfTrade_never(opposite, order) == FALSE

\* slip: the comparison is inverted
SelfTrade_inverted(opposite, order) == opposite.trader # order.trader

\* the self-trade test of the crossing walk
SelfTrade(opposite, order) == opposite.trader = order.trader

\* slip: the arms of the comparison are exchanged (max instead of min)
MatchAmount_max(opposite, order) ==
    IF opposite.remaining > order.remaining THEN opposite.remaining
                                            ELSE order.remaining

\* slip: the resting order's remaining is always taken
MatchAmount_opposite(opposite, order) == opposite.remaining

\* "determine how much to match"
MatchAmount(opposite, order) ==
    IF opposite.remaining > order.remaining THEN order.remaining
                                            ELSE opposite.remaining

\* slip: the iteration directions are exchanged
LevelOrder_reversed(incoming_side, opposing) ==
    IF incoming_side = "Bid" THEN Descending(DOMAIN opposing)
                             ELSE Ascending(DOMAIN opposing)

\* order in which the crossing walk visits the opposing price levels
LevelOrder(incoming_side, opposing) ==
    IF incoming_side = "Bid" THEN Ascending(DOMAIN opposing)
                             ELSE Descending(DOMAIN opposing)

\* slip: the last traded price is not recorded
UpdateLtp_stale(l, price) == l

\* self.ltp = *price
UpdateLtp(l, price) == price

\* running_total -= amount : U256 subtraction panics when it would go below 0
Underflows(running_total, amount) == amount > running_total

\* one match of the inner loop: the incoming order st.order against the
\* resting order at position i, for the given amount
Matched(price, i, st, amount) ==
    [order |-> fill(st.order, amount),
     opposites |-> [st.opposites EXCEPT ![i] = fill(st.opposites[i], amount)],
     fills |-> Append(st.fills,
                      build_fill(st.opposites[i].id, st.order.id, amount,
                                 st.opposites[i].price)),
     ltp |-> UpdateLtp(st.ltp, price),
     running_total |->
         IF Underflows(st.running_total, amount) THEN st.running_total
         ELSE st.running_total - amount,
     done |-> ~Underflows(st.running_total, amount)
                 /\ st.running_total - amount = 0,
     failed |-> Underflows(st.running_total, amount)]

RECURSIVE WalkQueue(_, _, _)
\* inner loop of Book::match over one level's queue, from position i.
\* st = [order, opposites, fills, ltp, running_total, done, failed]
WalkQueue(price, i, st) ==
    IF i > Len(st.opposites) \/ st.done \/ st.failed THEN st
    ELSE IF SelfTrade(st.opposites[i], st.order)
         THEN WalkQueue(price, i + 1, st)
         ELSE WalkQueue(price, i + 1,
                  Matched(price, i, st,
                          MatchAmount(st.opposites[i], st.order)))

\* the state of the inner loop when the outer loop enters a level
EnterLevel(w, price) ==
    [order |-> w.order, opposites |-> w.opposing[price], fills |-> w.fills,
     ltp |-> w.ltp, running_total |-> w.running_total, done |-> w.done,
     failed |-> w.failed]

\* slip: the outer loop halts after the first level
LeaveLevel_done(w, price, st) ==
    [order |-> st.order,
     opposing |-> [w.opposing EXCEPT ![price] = st.opposites],
     fills |-> st.fills, ltp |-> st.ltp, running_total |-> st.running_total,
     done |-> TRUE, failed |-> st.failed]

\* the state of the outer loop when the inner loop has ended in state st
LeaveLevel(w, price, st) ==
    [order |-> st.order,
     opposing |-> [w.opposing EXCEPT ![price] = st.opposites],
     fills |-> st.fills, ltp |-> st.ltp, running_total |-> st.running_total,
     done |-> st.done, failed |-> st.failed]

RECURSIVE WalkLevels(_, _, _)
\* outer loop of Book::match over the opposing levels keys[k..].
\* w = [order, opposing, fills, ltp, running_total, done, failed]
WalkLevels(keys, k, w) ==
    IF k > Len(keys) \/ w.failed THEN w
    ELSE IF w.done \/ ~price_viable(keys[k], w.order.price, w.order.side)
         THEN w
         ELSE WalkLevels(keys, k + 1,
                  LeaveLevel(w, keys[k],
                             WalkQueue(keys[k], 1, EnterLevel(w, keys[k]))))

\* slip: the leftover test is inverted
WalkStatus_inverted(running_total) ==
    IF running_total > 0 THEN "FullMatch" ELSE "PartialMatch"

\* status returned after the crossing walk
WalkStatus(running_total) ==
    IF running_total > 0 THEN "PartialMatch" ELSE "FullMatch"

\* the return of Book::match without a walk: the order is added, Placed
Rest(b, a, l, order) ==
    [bids |-> add_order(b, a, order)[1], asks |-> add_order(b, a, order)[2],
     ltp |-> l, failed |-> FALSE,
     result |-> build_match_result("Placed", <<>>)]

\* the book sides <<bids, asks>> with the walked opposing side put back
PutBack(b, a, side, opposing) ==
    IF side = "Bid" THEN <<b, opposing>> ELSE <<opposing, a>>

\* the end of Book::match after the walk ended in state w on the sides bk;
\* failed tells that the walk panicked: then nothing is returned and the
\* book is left as the walk had it
Finish(bk, w) ==
    [bids |-> IF w.running_total > 0 /\ ~w.failed
                THEN add_order(bk[1], bk[2], w.order)[1] ELSE bk[1],
     asks |-> IF w.running_total > 0 /\ ~w.failed
                THEN add_order(bk[1], bk[2], w.order)[2] ELSE bk[2],
     ltp |-> w.ltp,
     failed |-> w.failed,
     result |-> build_match_result(
                   IF w.failed THEN "Panicked"
                               ELSE WalkStatus(w.running_total),
                   w.fills)]

\* the state of the outer loop before the first level
StartWalk(order, opposing, l) ==
    [order |-> order, opposing |-> opposing, fills |-> <<>>, ltp |-> l,
     running_total |-> order.remaining, done |-> FALSE, failed |-> FALSE]

\* the crossing walk of Book::match over the opposing side
Walk(order, opposing, l) ==
    WalkLevels(LevelOrder(order.side, opposing), 1,
               StartWalk(order, opposing, l))

\* the state in which the walk ends, put back into the book
Walked(b, a, side, w) == Finish(PutBack(b, a, side, w.opposing), w)

\* Book::match : returns the book sides, ltp and the MatchResult
match(b, a, l, order, opposing_top) ==
    IF opposing_top = None
       \/ ~price_viable(opposing_top, order.price, order.side)
    THEN Rest(b, a, l, order)
    ELSE Walked(b, a, order.side,
                Walk(order, IF order.side = "Bid" THEN a ELSE b, l))

\* orders.retain(|order| !order.remaining.is_zero())
Retain(q) == SelectSeq(q, LAMBDA o : o.remaining # 0)

\* slip: empty levels are dropped before the filled orders are
prune_levels_first(side) ==
    LET kept == [p \in {q \in DOMAIN side : side[q] # <<>>} |-> side[p]]
    IN [p \in DOMAIN kept |-> Retain(kept[p])]

\* slip: nothing is pruned
prune_nothing(side) == side

\* Book::prune, on one side
prune(side) ==
    LET kept == [p \in DOMAIN side |-> Retain(side[p])]
    IN [p \in {q \in DOMAIN kept : kept[q] # <<>>} |-> kept[p]]

\* Book::update : prune, then depth = depth()
update(b, a) ==
    [bids |-> prune(b), asks |-> prune(a),
     depth |-> CountDepth(prune(b), prune(a))]

\* total filled per order id after the fills fs
AddFills(f, fs) ==
    [id \in OrderIds |->
        f[id] + SumQty(SelectSeq(fs, LAMBDA x : x.maker = id \/ x.taker = id))]

(* ---------------------- external representation ------------------------ *)
\* strings are sequences of characters
Digits == {"0", "1", "2", "3", "4", "5", "6", "7", "8", "9"}
HexChars == Digits \cup {"a", "b", "c", "d", "e", "f"}

DigitValue(c) ==
    CASE c = "0" -> 0 [] c = "1" -> 1 [] c = "2" -> 2 [] c = "3" -> 3
      [] c = "4" -> 4 [] c = "5" -> 5 [] c = "6" -> 6 [] c = "7" -> 7
      [] c = "8" -> 8 [] c = "9" -> 9

RECURSIVE DecValue(_)
\* U256::from_dec_str on a string of digits
DecValue(str) ==
    IF str = <<>> THEN 0
    ELSE 10 * DecValue(SubSeq(str, 1, Len(str) - 1))
            + DigitValue(str[Len(str)])

\* U256::from_dec_str returns Err on a character that is no digit
DecOk(str) == \A i \in 1..Len(str) : str[i] \in Digits

\* AddressWrapper::from_str returns Err on a character that is no hex digit
AddressOk(str) == \A i \in 1..Len(str) : str[i] \in HexChars

\* Order::try_from(ExternalOrder) returns Err on a malformed field
OrderOk(eo) == DecOk(eo.price)

\* Order::try_from(ExternalOrder)
OrderFrom(eo) ==
    [id |-> eo.id, trader |-> eo.trader, side |-> eo.side,
     price |-> DecValue(eo.price), quantity |-> 1, remaining |-> 1]

\* the inputs of the conversion
Markets == {<<"a", "b">>, <<"a", "g">>}
DecStrings == {<<"1">>, <<"1", "2">>, <<"x">>, <<"1", "x">>}
ExternalOrders ==
    {[id |-> 1, trader |-> "A", side |-> "Bid", price |-> d] :
        d \in {<<"1">>, <<"x">>}}
ExternalSides ==
    {[k \in {} |-> <<>>]}
      \cup {(k :> q) : k \in DecStrings,
                       q \in {<<>>} \cup {<<o>> : o \in ExternalOrders}}
ExternalBooks ==
    [market : Markets, bids : ExternalSides, asks : ExternalSides,
     ltp : DecStrings, depth : {<<0, 0>>}, crossed : {FALSE},
     spread : DecStrings]

NoExternal ==
    [market |-> <<>>, bids |-> [k \in {} |-> <<>>],
     asks |-> [k \in {} |-> <<>>], ltp |-> <<>>, depth |-> <<0, 0>>,
     crossed |-> FALSE, spread |-> <<>>]

NoBook == [market |-> <<>>, bids |-> EmptySide, asks |-> EmptySide,
           ltp |-> 0, depth |-> <<0, 0>>, crossed |-> FALSE, spread |-> 0]

NotRun == [kind |-> "NotRun", error |-> "", book |-> NoBook]

\* a side whose every key and every nested order parses; on any other side
\* one of the unwrap() calls panics
SideOk(xs) ==
    \A k \in DOMAIN xs :
        DecOk(k) /\ \A i \in 1..Len(xs[k]) : OrderOk(xs[k][i])

\* the map collected from one side of the external book
SideFrom(xs) ==
    LET keys == {DecValue(k) : k \in DOMAIN xs} IN
    [p \in keys |->
        LET k == CHOOSE j \in DOMAIN xs : DecValue(j) = p
        IN [i \in 1..Len(xs[k]) |-> OrderFrom(xs[k][i])]]

\* TryFrom<ExternalBook> for Book
try_from(value) ==
    IF ~AddressOk(value.market)
    THEN [kind |-> "Err", error |-> "AddressWrapperError", book |-> NoBook]
    ELSE IF ~SideOk(value.bids) \/ ~SideOk(value.asks)
    THEN [kind |-> "Panicked", error |-> "", book |-> NoBook]
    ELSE IF ~DecOk(value.ltp) \/ ~DecOk(value.spread)
    THEN [kind |-> "Err", error |-> "FromDecStrError", book |-> NoBook]
    ELSE [kind |-> "Ok", error |-> "",
          book |-> [market |-> value.market,
                    bids |-> SideFrom(value.bids),
                    asks |-> SideFrom(value.asks),
                    ltp |-> DecValue(value.ltp),
                    depth |-> value.depth,
                    crossed |-> value.crossed,
                    spread |-> DecValue(value.spread)]]

(* ---------------------------- actions ---------------------------------- *)
\* Book::new
NewBook ==
    /\ bids = EmptySide
    /\ asks = EmptySide
    /\ ltp = 0
    /\ depth = <<0, 0>>
    /\ crossed = FALSE
    /\ spread = 0
    /\ nextId = 1
    /\ lastOp = "none"
    /\ lastOrder = NoOrder
    /\ lastResult = NoResult
    /\ lastCancel = NoCancel
    /\ filled = [id \in OrderIds |-> 0]

Init ==
    /\ NewBook
    /\ ext = NoExternal
    /\ conv = NotRun

\* what submit leaves of the book when match returned r: update() has run,
\* unless the walk panicked
Updated(r, d) ==
    IF r.failed THEN [bids |-> r.bids, asks |-> r.asks, depth |-> d]
    ELSE update(r.bids, r.asks)

\* the effect of Book::submit on the book, given the return r of match and
\* the book u that update leaves
Returns(order, r, u) ==
    /\ bids' = u.bids
    /\ asks' = u.asks
    /\ ltp' = r.ltp
    /\ depth' = u.depth
    /\ lastOrder' = order
    /\ lastResult' = r.result
    /\ filled' = AddFills(filled, r.result.fills)

\* the opposing best price handed to match
OpposingTop(s) == IF s = "Bid" THEN top(bids, asks)[2] ELSE top(bids, asks)[1]

\* Book::submit, with the return r of match
Submitted(order, r) == Returns(order, r, Updated(r, depth))

\* Book::submit : match, then update (prune + depth)
Submit(trader, s, price, quantity) ==
    /\ nextId <= MaxOrders
    /\ Submitted(NewOrder(nextId, trader, s, price, quantity),
                 match(bids, asks, ltp,
                       NewOrder(nextId, trader, s, price, quantity),
                       OpposingTop(s)))
    /\ nextId' = nextId + 1
    /\ lastOp' = "submit"
    /\ lastCancel' = NoCancel
    /\ UNCHANGED <<crossed, spread, ext, conv>>

\* position of the first order with this id in iteration order, or <<>>
Find(side, order_id) ==
    LET hits == {<<p, i>> \in Prices \X (1..MaxOrders) :
                    p \in DOMAIN side /\ i <= Len(side[p])
                    /\ side[p][i].id = order_id}
    IN IF hits = {} THEN <<>>
       ELSE CHOOSE h \in hits : \A g \in hits :
                h[1] < g[1] \/ (h[1] = g[1] /\ h[2] <= g[2])

\* slip: the index is off by one
RemoveAt_next(q, i) == SubSeq(q, 1, i) \o SubSeq(q, i + 2, Len(q))

\* slip: swap_remove_back instead of remove, the last order takes the place
RemoveAt_swap(q, i) ==
    IF i = Len(q) THEN SubSeq(q, 1, Len(q) - 1)
    ELSE [SubSeq(q, 1, Len(q) - 1) EXCEPT ![i] = q[Len(q)]]

\* VecDeque::remove(index)
RemoveAt(q, i) == SubSeq(q, 1, i - 1) \o SubSeq(q, i + 1, Len(q))

\* Book::cancel : bids are searched first, then asks; no update afterwards
Cancel(order_id) ==
    /\ LET hb == Find(bids, order_id)
           ha == Find(asks, order_id)
       IN IF hb # <<>>
          THEN /\ bids' = [bids EXCEPT ![hb[1]] = RemoveAt(@, hb[2])]
               /\ asks' = asks
               /\ lastCancel' = [id |-> order_id, found |-> TRUE]
          ELSE IF ha # <<>>
          THEN /\ asks' = [asks EXCEPT ![ha[1]] = RemoveAt(@, ha[2])]
               /\ bids' = bids
               /\ lastCancel' = [id |-> order_id, found |-> TRUE]
          ELSE /\ UNCHANGED <<bids, asks>>
               /\ lastCancel' = [id |-> order_id, found |-> FALSE]
    /\ lastOp' = "cancel"
    /\ lastOrder' = NoOrder
    /\ lastResult' = NoResult
    /\ UNCHANGED <<ltp, depth, crossed, spread, nextId, filled, ext, conv>>

Next ==
    \/ \E trader \in Traders, s \in Sides, price \in Prices,
          quantity \in Quantities : Submit(trader, s, price, quantity)
    \/ \E order_id \in OrderIds : Cancel(order_id)

Spec == Init /\ [][Next]_vars

\* the conversion of an external book, for every external book of the inputs
InitConv ==
    /\ NewBook
    /\ ext \in ExternalBooks
    /\ conv = NotRun

TryFrom ==
    /\ conv = NotRun
    /\ conv' = try_from(ext)
    /\ UNCHANGED <<bids, asks, ltp, depth, crossed, spread, nextId, lastOp,
                   lastOrder, lastResult, lastCancel, filled, ext>>

NextConv == TryFrom

SpecConv == InitConv /\ [][NextConv]_vars

(* ------------------------- vocabulary of the claims -------------------- *)
\* a step in which submit ran (only submit advances nextId)
SubmitStep == nextId' = nextId + 1

\* the fills returned by the submit of this step, and its incoming order
NewFills == lastResult'.fills
Taker == lastOrder'

\* the opposing and the own side of the incoming order, before and after
OpposingBefore == IF Taker.side = "Bid" THEN asks ELSE bids
OpposingAfter == IF Taker.side = "Bid" THEN asks' ELSE bids'
OwnBefore == IF Taker.side = "Bid" THEN bids ELSE asks
OwnAfter == IF Taker.side = "Bid" THEN bids' ELSE asks'

\* price p is within the limit of the incoming order o
WithinLimit(p, o) ==
    (o.side = "Bid" /\ p <= o.price) \/ (o.side = "Ask" /\ p >= o.price)

\* price p has priority over price q for an incoming order of side s
StrictlyBetter(p, q, s) == (s = "Bid" /\ p < q) \/ (s = "Ask" /\ p > q)

\* quantity the first i-1 fills of fs took from the resting order id
TakenBefore(fs, i, id) ==
    SumQty(SelectSeq(SubSeq(fs, 1, i - 1), LAMBDA x : x.maker = id))

\* the resting orders of the whole book
Resting == OrdersOf(bids) \cup OrdersOf(asks)

(* ------------------------------ C1 ------------------------------------- *)
\* C1 (as stated): after submit has returned no resting bid and resting ask,
\* both with nonzero remaining, have bid price >= ask price.
C1_NeverCrossed ==
    lastOp = "submit" =>
        \A b \in OrdersOf(bids), a \in OrdersOf(asks) :
            (b.remaining # 0 /\ a.remaining # 0) => b.price < a.price

\* C1 (amended): after submit has returned no resting bid and resting ask of
\* two different accounts, both with nonzero remaining, have bid price >= ask
\* price; a bid and an ask of one account may rest crossed, since the walk
\* skips self-trades and rests the incoming order.
C1_NeverCrossedOtherAccount ==
    lastOp = "submit" =>
        \A b \in OrdersOf(bids), a \in OrdersOf(asks) :
            (b.remaining # 0 /\ a.remaining # 0 /\ b.trader # a.trader)
                => b.price < a.price

\* a crossing submit filled an order and both sides still hold orders of
\* different accounts
C1_Witness ==
    /\ lastOp = "submit"
    /\ lastResult.fills # <<>>
    /\ \E b \in OrdersOf(bids), a \in OrdersOf(asks) : b.trader # a.trader

(* ------------------------------ C2 ------------------------------------- *)
\* C2: no fill is produced whose maker order and taker order have the same
\* owning account.
C2_NoSelfTrade ==
    [][SubmitStep =>
        \A i \in 1..Len(NewFills) :
            /\ NewFills[i].taker = Taker.id
            /\ \E m \in OrdersOf(OpposingBefore) :
                  m.id = NewFills[i].maker /\ m.trader # Taker.trader]_vars

\* a submit filled against another account while an order of the taker's own
\* account stays on the opposing side within the taker's limit
C2_Witness ==
    /\ lastOp = "submit"
    /\ lastResult.fills # <<>>
    /\ \E o \in OrdersOf(IF lastOrder.side = "Bid" THEN asks ELSE bids) :
          o.trader = lastOrder.trader /\ WithinLimit(o.price, lastOrder)

(* ------------------------------ C3 ------------------------------------- *)
\* C3: within one submit the fills come in order of maker price from best to
\* worse, and a fill at price p comes only after every resting opposing order
\* of another account at a strictly better price was reduced to remaining 0.
C3_PricePriority ==
    [][SubmitStep =>
        /\ \A i, j \in 1..Len(NewFills) :
              i < j => ~StrictlyBetter(NewFills[j].price, NewFills[i].price,
                                       Taker.side)
        /\ \A i \in 1..Len(NewFills) :
              \A o \in OrdersOf(OpposingBefore) :
                  (o.trader # Taker.trader
                     /\ StrictlyBetter(o.price, NewFills[i].price, Taker.side))
                  => TakenBefore(NewFills, i, o.id) = o.remaining]_vars

\* one submit filled at two different prices
C3_Witness ==
    /\ lastOp = "submit"
    /\ \E i, j \in 1..Len(lastResult.fills) :
          lastResult.fills[i].price # lastResult.fills[j].price

(* ------------------------------ C4 ------------------------------------- *)
\* C4: within one price level a resting order is filled only when every
\* earlier-arrived order at that price owned by an account other than the
\* taker's has been reduced to remaining 0 (ids are issued in arrival order).
C4_TimePriority ==
    [][SubmitStep =>
        \A i \in 1..Len(NewFills) :
            \A o \in OrdersOf(OpposingBefore) :
                (o.trader # Taker.trader
                   /\ o.price = NewFills[i].price
                   /\ o.id < NewFills[i].maker)
                => TakenBefore(NewFills, i, o.id) = o.remaining]_vars

\* one submit filled two resting orders of the same price level
C4_Witness ==
    /\ lastOp = "submit"
    /\ \E i, j \in 1..Len(lastResult.fills) :
          /\ i < j
          /\ lastResult.fills[i].price = lastResult.fills[j].price
          /\ lastResult.fills[i].maker < lastResult.fills[j].maker

(* ------------------------------ C5 ------------------------------------- *)
\* C5: for a submitted order with quantity > 0, every fill has
\* 0 < quantity <= min(maker remaining before it, taker remaining before it),
\* and the fills of one submit sum to at most the order's quantity.
C5_Conservation ==
    [][(SubmitStep /\ Taker.quantity > 0) =>
        /\ \A i \in 1..Len(NewFills) :
              \E m \in OrdersOf(OpposingBefore) :
                  /\ m.id = NewFills[i].maker
                  /\ 0 < NewFills[i].quantity
                  /\ NewFills[i].quantity
                        <= m.remaining - TakenBefore(NewFills, i, m.id)
                  /\ NewFills[i].quantity
                        <= Taker.quantity - SumQty(SubSeq(NewFills, 1, i - 1))
        /\ SumQty(NewFills) <= Taker.quantity]_vars

\* a submit of quantity > 0 that was filled by two resting orders
C5_Witness ==
    /\ lastOp = "submit"
    /\ lastOrder.quantity > 0
    /\ Len(lastResult.fills) >= 2

(* ------------------------------ C6 ------------------------------------- *)
\* C6: each resting order has remaining <= quantity and remaining equal to
\* quantity minus the sum of all fills naming it, so the total filled never
\* exceeds its quantity; and the remaining of a resting order never increases.
C6_OrderQuantity ==
    /\ [](\A o \in Resting :
            /\ o.remaining <= o.quantity
            /\ o.remaining = o.quantity - filled[o.id]
            /\ filled[o.id] <= o.quantity)
    /\ [][\A o \in Resting :
            \A n \in OrdersOf(bids') \cup OrdersOf(asks') :
                n.id = o.id => n.remaining <= o.remaining]_vars

\* a resting order that a later submit filled in part
C6_Witness ==
    /\ lastOp = "submit"
    /\ \E o \in Resting :
          o.id # lastOrder.id /\ 0 < o.remaining /\ o.remaining < o.quantity

(* ------------------------------ C7 ------------------------------------- *)
\* C7: if, when submit is called (quantity > 0), no order rests on the
\* opposing side at a price within the incoming order's limit, then the result
\* is Placed with zero fills, the order is appended at the tail of its own
\* price level with remaining = quantity, and the opposing orders and ltp are
\* unchanged.
C7_NotViablePlaced ==
    [][(SubmitStep /\ Taker.quantity > 0
          /\ \A o \in OrdersOf(OpposingBefore) : ~WithinLimit(o.price, Taker))
        =>
        /\ lastResult'.order_status = "Placed"
        /\ NewFills = <<>>
        /\ Taker.price \in DOMAIN OwnAfter
        /\ OwnAfter[Taker.price] =
              (IF Taker.price \in DOMAIN OwnBefore
                 THEN OwnBefore[Taker.price] ELSE <<>>) \o <<Taker>>
        /\ prune(OpposingAfter) = prune(OpposingBefore)
        /\ ltp' = ltp]_vars

(* ------------------------------ C8 ------------------------------------- *)
\* C8: a submit that produces no fill and rests the whole incoming order
\* returns Placed; PartialMatch is returned only when some quantity was
\* filled.
C8_PlacedWhenNoFill ==
    lastOp = "submit" =>
        /\ (lastResult.fills = <<>>
              /\ \E o \in Resting :
                    o.id = lastOrder.id /\ o.remaining = lastOrder.quantity)
           => lastResult.order_status = "Placed"
        /\ lastResult.order_status = "PartialMatch"
           => SumQty(lastResult.fills) > 0

(* ------------------------------ C9 ------------------------------------- *)
\* the submit of this step entered the crossing walk: the opposing side had a
\* best price and it was within the incoming order's limit
EnteredWalk ==
    /\ DOMAIN OpposingBefore # {}
    /\ \/ Taker.side = "Bid" /\ Min(DOMAIN OpposingBefore) <= Taker.price
       \/ Taker.side = "Ask" /\ Max(DOMAIN OpposingBefore) >= Taker.price

\* C9: after the crossing walk, an incoming order with quantity left over is
\* inserted at the tail of its own price level with remaining = quantity minus
\* the sum of this submit's fills and the status is PartialMatch; otherwise
\* the status is FullMatch, the fills sum to its quantity and the order is
\* not in the book.
C9_Disposition ==
    [][(SubmitStep /\ EnteredWalk) =>
        LET left == Taker.quantity - SumQty(NewFills) IN
        IF left # 0
        THEN /\ left > 0
             /\ lastResult'.order_status = "PartialMatch"
             /\ Taker.price \in DOMAIN OwnAfter
             /\ OwnAfter[Taker.price][Len(OwnAfter[Taker.price])]
                   = [Taker EXCEPT !.remaining = left]
        ELSE /\ lastResult'.order_status = "FullMatch"
             /\ \A o \in OrdersOf(bids') \cup OrdersOf(asks') :
                   o.id # Taker.id]_vars

\* a crossing submit was filled in part and its remainder rests
C9_Witness ==
    /\ lastOp = "submit"
    /\ lastResult.order_status = "PartialMatch"
    /\ lastResult.fills # <<>>
    /\ \E o \in Resting :
          o.id = lastOrder.id /\ 0 < o.remaining
             /\ o.remaining < lastOrder.quantity

(* ------------------------------ C10 ------------------------------------ *)
\* C10: every fill records maker = id of the resting order, taker = id of the
\* incoming order and price = the resting order's limit price, which is within
\* the taker's limit.
C10_FillRecord ==
    [][SubmitStep =>
        \A i \in 1..Len(NewFills) :
            /\ NewFills[i].taker = Taker.id
            /\ \E m \in OrdersOf(OpposingBefore) :
                  /\ m.id = NewFills[i].maker
                  /\ m.price = NewFills[i].price
            /\ WithinLimit(NewFills[i].price, Taker)]_vars

\* a fill at a price strictly better than the taker's limit
C10_Witness ==
    /\ lastOp = "submit"
    /\ \E i \in 1..Len(lastResult.fills) :
          lastResult.fills[i].price # lastOrder.price

(* ------------------------------ C11 ------------------------------------ *)
\* C11: ltp is 0 on a new book; a submit that produced at least one fill sets
\* ltp to the price of its last fill; a submit without a fill, and any cancel,
\* leave ltp unchanged (so ltp stays 0 until the first fill).
C11_LastTradedPrice ==
    /\ ltp = 0
    /\ [][IF SubmitStep /\ NewFills # <<>>
            THEN ltp' = NewFills[Len(NewFills)].price
            ELSE ltp' = ltp]_vars

\* a submit filled at two prices and ltp is the price of the later fill
C11_Witness ==
    /\ lastOp = "submit"
    /\ Len(lastResult.fills) >= 2
    /\ lastResult.fills[1].price # ltp
    /\ lastResult.fills[Len(lastResult.fills)].price = ltp

(* ------------------------------ C12 ------------------------------------ *)
\* C12: after every submit returns no order with remaining 0 is in a queue,
\* no price level has an empty queue, and the stored depth equals, per side,
\* the number of orders with nonzero remaining and the total queue length.
SideLength(side) == Cardinality({<<p, i>> \in Prices \X (1..MaxOrders) :
                                    p \in DOMAIN side /\ i <= Len(side[p])})

C12_MaintainedAfterSubmit ==
    lastOp = "submit" =>
        /\ \A o \in Resting : o.remaining # 0
        /\ \A p \in DOMAIN bids : bids[p] # <<>>
        /\ \A p \in DOMAIN asks : asks[p] # <<>>
        /\ depth[1] = Cardinality({o \in OrdersOf(bids) : o.remaining # 0})
        /\ depth[2] = Cardinality({o \in OrdersOf(asks) : o.remaining # 0})
        /\ depth = <<SideLength(bids), SideLength(asks)>>

\* a submit consumed a resting order whole, which is gone from the book, and
\* left its own remainder resting
C12_Witness ==
    /\ lastOp = "submit"
    /\ \E i \in 1..Len(lastResult.fills) :
          \A o \in Resting : o.id # lastResult.fills[i].maker
    /\ depth[1] + depth[2] > 0

(* ------------------------------ C13 ------------------------------------ *)
\* C13: after every submit returns with both sides non-empty, spread equals
\* the lowest resting ask price minus the highest resting bid price.
C13_Spread ==
    (lastOp = "submit" /\ OrdersOf(bids) # {} /\ OrdersOf(asks) # {}) =>
        spread = Min({o.price : o \in OrdersOf(asks)})
                   - Max({o.price : o \in OrdersOf(bids)})

(* ------------------------------ C14 ------------------------------------ *)
\* C14: the crossed flag is true exactly when both sides are non-empty and
\* the best bid price is >= the best ask price.
C14_CrossedFlag ==
    crossed <=>
        /\ OrdersOf(bids) # {}
        /\ OrdersOf(asks) # {}
        /\ Max({o.price : o \in OrdersOf(bids)})
              >= Min({o.price : o \in OrdersOf(asks)})

(* ------------------------------ C15 ------------------------------------ *)
\* C15: after cancel returns having removed an order, the stored depth equals
\* the per-side count of resting orders with nonzero remaining and no price
\* level is left with an empty queue, so top() reports no price at which no
\* order rests.
C15_DerivedAfterCancel ==
    (lastOp = "cancel" /\ lastCancel.found) =>
        /\ depth = CountDepth(bids, asks)
        /\ \A p \in DOMAIN bids : bids[p] # <<>>
        /\ \A p \in DOMAIN asks : asks[p] # <<>>

(* ------------------------------ C16 ------------------------------------ *)
\* a side with the order of this id taken out, levels and positions kept
Without(side, id) ==
    [p \in DOMAIN side |-> SelectSeq(side[p], LAMBDA o : o.id # id)]

\* C16: cancel(id) of a resting order returns Some, removes exactly that one
\* order and leaves every other resting order (remaining, queue position) and
\* ltp unchanged; cancel of an id that does not rest returns None and leaves
\* the book unchanged.
C16_Cancel ==
    [][lastOp' = "cancel" =>
        LET id == lastCancel'.id IN
        IF \E o \in Resting : o.id = id
        THEN /\ lastCancel'.found
             /\ bids' = Without(bids, id)
             /\ asks' = Without(asks, id)
             /\ SideLength(bids') + SideLength(asks')
                   = SideLength(bids) + SideLength(asks) - 1
             /\ ltp' = ltp
        ELSE /\ ~lastCancel'.found
             /\ bids' = bids
             /\ asks' = asks
             /\ ltp' = ltp]_vars

\* a cancel removed an order from the front of a queue that still holds a
\* later order
C16_Witness ==
    /\ lastOp = "cancel"
    /\ lastCancel.found
    /\ \E o \in Resting : o.id > lastCancel.id
    /\ \E o \in Resting : o.id < lastCancel.id

(* ------------------------------ C17 ------------------------------------ *)
\* C17: submit never fails in the matching logic: every submit returns a
\* MatchResult with one of the three statuses; the walk never stops half way
\* with the book partly mutated.
C17_SubmitNeverFails ==
    lastOp = "submit" =>
        lastResult.order_status \in {"Placed", "PartialMatch", "FullMatch"}

\* a submit whose quantity was smaller than the resting order it met, and
\* one that was larger than it
C17_Witness ==
    /\ lastOp = "submit"
    /\ lastResult.fills # <<>>
    /\ lastResult.order_status = "FullMatch"
    /\ \E o \in Resting :
          o.id = lastResult.fills[Len(lastResult.fills)].maker
             /\ o.remaining > 0

(* ------------------------------ C18 ------------------------------------ *)
\* some field of the external book is malformed
Malformed(x) ==
    \/ ~AddressOk(x.market)
    \/ \E k \in DOMAIN x.bids :
          ~DecOk(k) \/ \E i \in 1..Len(x.bids[k]) : ~OrderOk(x.bids[k][i])
    \/ \E k \in DOMAIN x.asks :
          ~DecOk(k) \/ \E i \in 1..Len(x.asks[k]) : ~OrderOk(x.asks[k][i])
    \/ ~DecOk(x.ltp)
    \/ ~DecOk(x.spread)

\* C18: converting an ExternalBook never panics: with any malformed field the
\* conversion returns a typed BookParseError and no Book.
C18_ConversionNeverPanics ==
    /\ conv.kind # "Panicked"
    /\ (conv.kind # "NotRun" /\ Malformed(ext))
          => (conv.kind = "Err" /\ conv.error # "" /\ conv.book = NoBook)

(* ------------------------------ C19 ------------------------------------ *)
\* C19: running the maintenance step a second time after submit has run it
\* leaves both sides and the depth as they are (spread, crossed and ltp are
\* not written by it).
C19_IdempotentMaintenance ==
    lastOp = "submit" =>
        update(bids, asks) = [bids |-> bids, asks |-> asks, depth |-> depth]

\* the maintenance step of the last submit removed the only order of a level
C19_Witness ==
    /\ lastOp = "submit"
    /\ lastResult.order_status = "FullMatch"
    /\ \E i \in 1..Len(lastResult.fills) :
          /\ \A o \in Resting : o.id # lastResult.fills[i].maker
          /\ lastResult.fills[i].price
                \notin DOMAIN (IF lastOrder.side = "Bid" THEN asks ELSE bids)

(* ------------------------------ C20 ------------------------------------ *)
\* C20: a submit of an order with quantity 0 produces no fill and returns
\* Placed, whatever the opposing side holds.
C20_ZeroQuantity ==
    (lastOp = "submit" /\ lastOrder.quantity = 0) =>
        /\ lastResult.fills = <<>>
        /\ lastResult.order_status = "Placed"

(* ------------------------------ C21 ------------------------------------ *)
\* the ids of the orders ahead of position i in the queue q
Ahead(q, i) == {q[j].id : j \in 1..(i - 1)}

\* the ids of the orders in the queue q
IdsOf(q) == {q[j].id : j \in 1..Len(q)}

\* the order at position i of level p keeps its record and its place in the
\* queue: it is in level p afterwards, and the orders ahead of it afterwards
\* are the orders that were ahead of it before and are still in the level
KeepsPlace(before, after, p, i) ==
    /\ p \in DOMAIN after
    /\ \E j \in 1..Len(after[p]) :
          /\ after[p][j] = before[p][i]
          /\ Ahead(after[p], j) = Ahead(before[p], i) \cap IdsOf(after[p])

\* C21: in a crossing walk a resting order of the incoming order's account is
\* left as it was (same record, same level, same place among the orders of
\* its level), and the walk goes on past it: an order of another account at
\* a viable price is left with remaining > 0 only when the incoming order
\* was matched in full.
C21_SelfTradeSkip ==
    [][(SubmitStep /\ EnteredWalk) =>
        /\ \A p \in DOMAIN OpposingBefore :
              \A i \in 1..Len(OpposingBefore[p]) :
                  OpposingBefore[p][i].trader = Taker.trader
                  => KeepsPlace(OpposingBefore, OpposingAfter, p, i)
        /\ \A m \in OrdersOf(OpposingBefore) :
              (m.trader # Taker.trader /\ WithinLimit(m.price, Taker)
                 /\ \E o \in OrdersOf(OpposingAfter) : o.id = m.id)
              => SumQty(NewFills) = Taker.quantity]_vars

\* a submit filled an order of another account that was queued behind an
\* order of the taker's own account in the same level, and that order of
\* the taker's account is still there
C21_Witness ==
    /\ lastOp = "submit"
    /\ \E i \in 1..Len(lastResult.fills) :
          \E o \in OrdersOf(IF lastOrder.side = "Bid" THEN asks ELSE bids) :
              /\ o.trader = lastOrder.trader
              /\ o.price = lastResult.fills[i].price
              /\ o.id < lastResult.fills[i].maker
              /\ lastResult.fills[i].quantity > 0

(* ------------------------------ C22 ------------------------------------ *)
\* the ids of the orders held in one side of the book
SideIds(side) == {o.id : o \in OrdersOf(side)}

\* two orders that are in level p before and after keep their relative order
KeepOrder(before, after) ==
    \A p \in DOMAIN before \cap DOMAIN after :
        \A i, j \in 1..Len(before[p]) : \A k, l \in 1..Len(after[p]) :
            (i < j /\ after[p][k].id = before[p][i].id
                   /\ after[p][l].id = before[p][j].id) => k < l

\* an order that stays in the side stays in its level
KeepLevel(before, after) ==
    \A p \in DOMAIN before : \A i \in 1..Len(before[p]) :
        before[p][i].id \in SideIds(after)
        => p \in DOMAIN after /\ before[p][i].id \in IdsOf(after[p])

\* an order that was not in the side before is the last of its level
NewIsLast(before, after) ==
    \A p \in DOMAIN after : \A k \in 1..Len(after[p]) :
        after[p][k].id \notin SideIds(before) => k = Len(after[p])

\* C22: over every submit and cancel, two orders that rest in one price
\* level before and after keep their relative order, an order that stays in
\* the book stays in its level (so a partially filled order keeps its queue
\* position), and a newly resting order is behind every order already at
\* its price.
C22_FifoStability ==
    [][/\ KeepOrder(bids, bids') /\ KeepOrder(asks, asks')
       /\ KeepLevel(bids, bids') /\ KeepLevel(asks, asks')
       /\ NewIsLast(bids, bids') /\ NewIsLast(asks, asks')]_vars

\* a submit partially filled a resting order that has another order queued
\* behind it in its level
C22_Witness ==
    /\ lastOp = "submit"
    /\ \E side \in {bids, asks} : \E p \in DOMAIN side :
          \E i, j \in 1..Len(side[p]) :
              /\ i < j
              /\ side[p][i].remaining < side[p][i].quantity
              /\ \E k \in 1..Len(lastResult.fills) :
                    lastResult.fills[k].maker = side[p][i].id

(* ------------------------------ C23 ------------------------------------ *)
\* the opposing side of the last submitted order
OpposingOfLast == IF lastOrder.side = "Bid" THEN asks ELSE bids

\* the last submitted order rests in the book with remaining > 0
LastRests ==
    \E o \in Resting : o.id = lastOrder.id /\ o.remaining > 0

\* C23: when submit has returned with the incoming order resting with
\* remaining > 0, every order resting on the opposing side at a price within
\* its limit is owned by the incoming order's account; and in every state
\* reached by submits and cancels a resting bid and a resting ask with bid
\* price >= ask price belong to the same account.
C23_ExhaustiveCrossing ==
    /\ (lastOp = "submit" /\ LastRests) =>
          \A m \in OrdersOf(OpposingOfLast) :
              WithinLimit(m.price, lastOrder) => m.trader = lastOrder.trader
    /\ \A b \in OrdersOf(bids), a \in OrdersOf(asks) :
          b.price >= a.price => b.trader = a.trader

\* a submit was filled by another account, rests with the quantity left
\* over, and an order of its own account stays on the opposing side within
\* its limit
C23_Witness ==
    /\ lastOp = "submit"
    /\ LastRests
    /\ \E k \in 1..Len(lastResult.fills) : lastResult.fills[k].quantity > 0
    /\ \E m \in OrdersOf(OpposingOfLast) : WithinLimit(m.price, lastOrder)

(* ------------------------------ C24 ------------------------------------ *)
\* every order of the side is of the side s and is stored under its price
PlacedIn(side, s) ==
    \A p \in DOMAIN side : \A i \in 1..Len(side[p]) :
        side[p][i].side = s /\ side[p][i].price = p

\* the keys of the levels of the side that hold the order with this id
LevelsOf(side, id) == {p \in DOMAIN side : id \in IdsOf(side[p])}

\* C24: in every reachable state each order of the bid side is a Bid stored
\* under the level whose key is its price and each order of the ask side is
\* an Ask stored under the level whose key is its price; so in every submit
\* the price recorded in a fill is the key of the level its maker was in,
\* and the last traded price is the key of the level of the last maker.
C24_Placement ==
    /\ [](PlacedIn(bids, "Bid") /\ PlacedIn(asks, "Ask"))
    /\ [][SubmitStep =>
            /\ \A k \in 1..Len(NewFills) :
                  LevelsOf(OpposingBefore, NewFills[k].maker)
                      = {NewFills[k].price}
            /\ NewFills # <<>> =>
                  LevelsOf(OpposingBefore, NewFills[Len(NewFills)].maker)
                      = {ltp'}]_vars

\* a submit was filled, the last traded price is the price of its last fill,
\* and orders rest on both sides under different prices
C24_Witness ==
    /\ lastOp = "submit"
    /\ lastResult.fills # <<>>
    /\ ltp = lastResult.fills[Len(lastResult.fills)].price
    /\ \E p \in DOMAIN bids, q \in DOMAIN asks :
          p # q /\ bids[p] # <<>> /\ asks[q] # <<>>
====
